---- MODULE Spec2Model ----
(***************************************************************************)
(* Model of broadlink/purifier.py: the LIFAair air purifier codec.         *)
(*                                                                         *)
(* One call of get_state / set_fan_mode / set_fan_speed runs               *)
(*   _send (build packet, send_packet, check_error, decrypt)               *)
(*   _decode_state (_decode_state_raw, _decode_fan_mode)                   *)
(* and either returns a state dict or raises.                              *)
(*                                                                         *)
(* Python values are modelled as follows:                                  *)
(*   bytes / bytearray  sequence of 0..255; Python index k is k + 1 here   *)
(*   None               the empty sequence <<>>, a value v being <<v>>     *)
(*   x / 10.0           the decimal [units, tenths]                        *)
(*   FanMode (IntEnum)  its integer value                                  *)
(***************************************************************************)
EXTENDS Integers, Sequences, FiniteSets

VARIABLES
    pc,      \* position of the running call
    call,    \* the public method called and its argument
    args,    \* <<operation, action, action_arg>> passed to _send
    sent,    \* packets handed to send_packet during the current call
    resp,    \* error code carried by the response, resp[0x22:0x24]
    data,    \* decrypted payload, <<>> before decrypt has run
    result,  \* <<>> or <<the dict returned by _decode_state>>
    raised,  \* "none" or the name of the exception that aborted the call
    steps    \* the steps the current call has executed, in order

vars == <<pc, call, args, sent, resp, data, result, raised, steps>>

None == <<>>
Some(v) == <<v>>

-----------------------------------------------------------------------------
(* Bounds *)

\* set_fan_mode is tried with every integer in -2 .. MaxModeArg
MaxModeArg == 7
\* _send is tried with every action_arg in -MaxArg .. MaxArg
MaxArg == 310
\* decrypted payloads have up to MaxPad bytes after offset 57
MaxPad == 1

-----------------------------------------------------------------------------
(* class FanMode(enum.IntEnum) *)

OFF == 0
AUTO == 1
NIGHT == 2
TURBO == 3
ANTI_ALLERGY == 4
MANUAL == 5
UNKNOWN == -1

\* lifaair._Operation
SET_STATE == 1
GET_STATE == 2

\* lifaair._Action
SET_FAN_SPEED == 1
SET_FAN_MODE == 2

\* FAN_STATE_TO_MODE.get(fan_state, FanMode.UNKNOWN)
FAN_STATE_TO_MODE_Offline01Unknown(fan_state) ==
    CASE fan_state = 129 -> Some(OFF)
      [] fan_state = 165 -> Some(AUTO)
      [] fan_state = 149 -> Some(NIGHT)
      [] fan_state = 141 -> Some(TURBO)
      [] fan_state = 133 -> Some(MANUAL)
      [] OTHER -> Some(UNKNOWN)

FAN_STATE_TO_MODE(fan_state) ==
    CASE fan_state = 129 -> Some(OFF)        \* 0x81
      [] fan_state = 165 -> Some(AUTO)       \* 0xA5
      [] fan_state = 149 -> Some(NIGHT)      \* 0x95
      [] fan_state = 141 -> Some(TURBO)      \* 0x8D
      [] fan_state = 133 -> Some(MANUAL)     \* 0x85
      [] fan_state = 1 -> None               \* 0x01, fan is offline
      [] OTHER -> Some(UNKNOWN)

\* FAN_MODE_TO_ACTION_ARG.get(fan_mode): None when the key is missing
FAN_MODE_TO_ACTION_ARG(fan_mode) ==
    CASE fan_mode = OFF -> Some(1)
      [] fan_mode = AUTO -> Some(2)
      [] fan_mode = NIGHT -> Some(6)
      [] fan_mode = TURBO -> Some(7)
      [] fan_mode = ANTI_ALLERGY -> Some(11)
      [] OTHER -> None

-----------------------------------------------------------------------------
(* Packet construction, lifaair._send lines 136-152 *)

\* x & 0xFF on a Python int (two's complement of unbounded width)
And0xFF(x) == x % 256

\* bytearray(n)
bytearray(n) == [i \in 1..n |-> 0]

\* packet[k] = v
SetByte(packet, k, v) == [packet EXCEPT ![k + 1] = v]

RECURSIVE SumFrom(_, _)
SumFrom(s, i) == IF i > Len(s) THEN 0 ELSE s[i] + SumFrom(s, i + 1)

\* sum(packet, start)
sum(packet, start) == start + SumFrom(packet, 1)

checksum_Mod256(packet) == sum(packet, 48815) % 256

\* checksum = sum(packet, 0xBEAF) & 0xFFFF
checksum(packet) == sum(packet, 48815) % 65536

\* lines 136-144: the zeroed buffer with magic, operation, action, action_arg
PacketBody(operation, action, action_arg) ==
    LET p0 == bytearray(26)
        p1 == SetByte(p0, 2, 165)
        p2 == SetByte(p1, 3, 165)
        p3 == SetByte(p2, 4, 90)
        p4 == SetByte(p3, 5, 90)
        p5 == SetByte(p4, 8, And0xFF(operation))
        p6 == SetByte(p5, 10, 12)
        p7 == SetByte(p6, 14, And0xFF(action))
    IN  SetByte(p7, 15, And0xFF(action_arg))

\* lines 150-152
WriteLength(packet) ==
    LET packet_len == Len(packet) - 2
    IN  SetByte(SetByte(packet, 0, And0xFF(packet_len)), 1, packet_len \div 256)

\* lines 146-148
WriteChecksum(packet) ==
    LET c == checksum(packet)
    IN  SetByte(SetByte(packet, 6, And0xFF(c)), 7, c \div 256)

BuildPacket_LengthFirst(operation, action, action_arg) ==
    WriteChecksum(WriteLength(PacketBody(operation, action, action_arg)))

\* lines 136-152: the packet handed to send_packet
BuildPacket(operation, action, action_arg) ==
    WriteLength(WriteChecksum(PacketBody(operation, action, action_arg)))

-----------------------------------------------------------------------------
(* Dispatch of the public methods to _send *)

\* get_state: self._send(self._Operation.GET_STATE), action and action_arg default to 0
get_state_args == <<GET_STATE, 0, 0>>

\* set_fan_speed(fan_speed)
set_fan_speed_args(fan_speed) == <<SET_STATE, SET_FAN_SPEED, fan_speed>>

set_fan_mode_args_NoFallback(fan_mode) ==
    IF fan_mode = MANUAL
    THEN set_fan_speed_args(50)
    ELSE LET action_arg == FAN_MODE_TO_ACTION_ARG(fan_mode)
         IN  IF action_arg # None
             THEN <<SET_STATE, SET_FAN_MODE, action_arg[1]>>
             ELSE <<SET_STATE, SET_FAN_MODE, 0>>

set_fan_mode_args_ManualAsMode(fan_mode) ==
    LET action_arg == FAN_MODE_TO_ACTION_ARG(fan_mode)
    IN  IF fan_mode = MANUAL
        THEN <<SET_STATE, SET_FAN_MODE, 5>>
        ELSE IF action_arg # None
             THEN <<SET_STATE, SET_FAN_MODE, action_arg[1]>>
             ELSE get_state_args

\* set_fan_mode(fan_mode)
set_fan_mode_args(fan_mode) ==
    IF fan_mode = MANUAL
    THEN set_fan_speed_args(50)
    ELSE LET action_arg == FAN_MODE_TO_ACTION_ARG(fan_mode)
         IN  IF action_arg # None
             THEN <<SET_STATE, SET_FAN_MODE, action_arg[1]>>
             ELSE get_state_args

-----------------------------------------------------------------------------
(* Decoding, lifaair._decode_state_raw / _decode_fan_mode / _decode_state *)

\* data[k] of a bytes object
At(d, k) == d[k + 1]

\* the indexes _decode_state_raw reads
RawIndexes == {27, 28, 29, 31, 32, 35, 36, 37, 38, 39, 40, 41, 42, 55, 56, 57}

\* data[k] raises IndexError when k >= len(data)
RaisesIndexError(d) == \E k \in RawIndexes : k >= Len(d)

_decode_state_raw(d) ==
    [ temperature |-> At(d, 27) + 256 * At(d, 28),
      humidity    |-> At(d, 29),
      co2         |-> At(d, 31) + 256 * At(d, 32),
      tvoc        |-> At(d, 35) + 256 * At(d, 36),
      pm10        |-> At(d, 37) + 256 * At(d, 38),
      pm2_5       |-> At(d, 39) + 256 * At(d, 40),
      pm1         |-> At(d, 41) + 256 * At(d, 42),
      fan_state   |-> At(d, 55),
      fan_speed   |-> At(d, 56),
      fan_flags   |-> At(d, 57) ]

\* x & 0x40 == 0, which Python reads as (x & 0x40) == 0
Bit0x40Clear(x) == (x \div 64) % 2 = 0

_decode_fan_mode_Bit0x80(fan_state, fan_flags) ==
    IF (fan_flags \div 128) % 2 = 0
    THEN Some(ANTI_ALLERGY)
    ELSE FAN_STATE_TO_MODE(fan_state)

_decode_fan_mode(fan_state, fan_flags) ==
    IF Bit0x40Clear(fan_flags)
    THEN Some(ANTI_ALLERGY)
    ELSE FAN_STATE_TO_MODE(fan_state)

\* raw / 10.0 as a decimal with one fractional digit
DivTen(raw) == [units |-> raw \div 10, tenths |-> raw % 10]

_decode_state_HumidityAlways(d) ==
    LET raw == _decode_state_raw(d)
        fan_mode == _decode_fan_mode(raw.fan_state, raw.fan_flags)
        isOffline == fan_mode = None
    IN  [ temperature |-> IF isOffline THEN None ELSE Some(DivTen(raw.temperature)),
          humidity    |-> Some(raw.humidity),
          co2         |-> raw.co2,
          tvoc        |-> raw.tvoc * 10,
          pm10        |-> raw.pm10,
          pm2_5       |-> raw.pm2_5,
          pm1         |-> raw.pm1,
          fan_mode    |-> fan_mode,
          fan_speed   |-> raw.fan_speed ]

_decode_state(d) ==
    LET raw == _decode_state_raw(d)
        fan_mode == _decode_fan_mode(raw.fan_state, raw.fan_flags)
        isOffline == fan_mode = None
    IN  [ temperature |-> IF isOffline THEN None ELSE Some(DivTen(raw.temperature)),
          humidity    |-> IF isOffline THEN None ELSE Some(raw.humidity),
          co2         |-> raw.co2,
          tvoc        |-> raw.tvoc * 10,
          pm10        |-> raw.pm10,
          pm2_5       |-> raw.pm2_5,
          pm1         |-> raw.pm1,
          fan_mode    |-> fan_mode,
          fan_speed   |-> raw.fan_speed ]

-----------------------------------------------------------------------------
(* The collaborators of _send: send_packet, check_error, decrypt *)

\* e.check_error(resp[0x22:0x24]) raises when the error code is not zero
check_error(error) == error[1] + 256 * error[2] # 0

AfterCheckError_Ignored(failed) == "decrypt"

\* line 155 raises out of _send, otherwise line 156 runs
AfterCheckError(failed) == IF failed THEN "raised" ELSE "decrypt"

\* the error codes a response may carry: none, 1, and -7 (0xFFF9)
ErrorCodes == {<<0, 0>>, <<1, 0>>, <<249, 255>>}

\* a payload of len bytes holding the fields f at the offsets the device uses
PayloadOf(len, f) ==
    [i \in 1..len |->
        CASE i - 1 = 27 -> f.temperature % 256
          [] i - 1 = 28 -> f.temperature \div 256
          [] i - 1 = 29 -> 41
          [] i - 1 = 31 -> 425 % 256
          [] i - 1 = 32 -> 425 \div 256
          [] i - 1 = 35 -> f.tvoc % 256
          [] i - 1 = 36 -> f.tvoc \div 256
          [] i - 1 = 37 -> 9
          [] i - 1 = 39 -> 263 % 256
          [] i - 1 = 40 -> 263 \div 256
          [] i - 1 = 41 -> 5
          [] i - 1 = 55 -> f.fan_state
          [] i - 1 = 56 -> f.fan_speed
          [] i - 1 = 57 -> f.fan_flags
          [] OTHER -> 0]

Byte == 0..255

FieldChoices ==
    [ temperature : {245, 300},
      tvoc        : {15, 260},
      fan_state   : {129, 165, 149, 141, 133, 1, 0, 255},
      fan_speed   : {0, 50, 121, 200},
      fan_flags   : {0, 64, 191, 255} ]

\* what decrypt may return: complete payloads and truncated ones
Payloads ==
    { PayloadOf(len, f) : len \in 58..(58 + MaxPad), f \in FieldChoices }
    \cup { PayloadOf(len, CHOOSE f \in FieldChoices : f.fan_state = 165) :
              len \in {0, 28, 48, 57} }

-----------------------------------------------------------------------------
(* The calls *)

Calls ==
    { [method |-> "get_state", arg |-> 0] }
    \cup { [method |-> "set_fan_mode", arg |-> m] : m \in (-2)..MaxModeArg }
    \cup { [method |-> "set_fan_speed", arg |-> s] : s \in {0, 50, 121, 255, 306} }

ArgsOf(c) ==
    CASE c.method = "get_state" -> get_state_args
      [] c.method = "set_fan_mode" -> set_fan_mode_args(c.arg)
      [] c.method = "set_fan_speed" -> set_fan_speed_args(c.arg)

Init ==
    /\ pc = "idle"
    /\ call = [method |-> "none", arg |-> 0]
    /\ args = <<>>
    /\ sent = <<>>
    /\ resp = <<>>
    /\ data = <<>>
    /\ result = None
    /\ raised = "none"
    /\ steps = <<>>

\* a public method is entered and reaches its call of _send
Call ==
    /\ pc \in {"idle", "returned", "raised"}
    /\ \E c \in Calls :
          /\ call' = c
          /\ args' = ArgsOf(c)
    /\ pc' = "_send"
    /\ sent' = <<>>
    /\ resp' = <<>>
    /\ data' = <<>>
    /\ result' = None
    /\ raised' = "none"
    /\ steps' = <<>>

\* lines 136-154: the packet is built and exchanged for a response
SendPacket ==
    /\ pc = "_send"
    /\ sent' = Append(sent, BuildPacket(args[1], args[2], args[3]))
    /\ \E error \in ErrorCodes : resp' = error
    /\ pc' = "check_error"
    /\ steps' = Append(steps, "send_packet")
    /\ UNCHANGED <<call, args, data, result, raised>>

\* line 155
CheckError ==
    /\ pc = "check_error"
    /\ pc' = AfterCheckError(check_error(resp))
    /\ raised' = IF check_error(resp) THEN "DeviceError" ELSE raised
    /\ steps' = Append(steps, "check_error")
    /\ UNCHANGED <<call, args, sent, resp, data, result>>

\* line 156
Decrypt ==
    /\ pc = "decrypt"
    /\ \E payload \in Payloads : data' = payload
    /\ pc' = "_decode_state"
    /\ steps' = Append(steps, "decrypt")
    /\ UNCHANGED <<call, args, sent, resp, result, raised>>

\* lines 99-113, run on the value _send returned
DecodeState ==
    /\ pc = "_decode_state"
    /\ steps' = Append(steps, "_decode_state")
    /\ IF RaisesIndexError(data)
       THEN /\ raised' = "IndexError"
            /\ pc' = "raised"
            /\ result' = result
       ELSE /\ result' = Some(_decode_state(data))
            /\ pc' = "returned"
            /\ raised' = raised
    /\ UNCHANGED <<call, args, sent, resp, data>>

Next == Call \/ SendPacket \/ CheckError \/ Decrypt \/ DecodeState

Spec == Init /\ [][Next]_vars

-----------------------------------------------------------------------------
(* _send on arbitrary integer arguments *)

IntArgs == {-255, 0, 1, 2, 255, 256, 257, 258}

InitSend ==
    /\ pc = "_send"
    /\ call = [method |-> "_send", arg |-> 0]
    /\ args \in IntArgs \X IntArgs \X ((-MaxArg)..MaxArg)
    /\ sent = <<>>
    /\ resp = <<>>
    /\ data = <<>>
    /\ result = None
    /\ raised = "none"
    /\ steps = <<>>

SpecSend == InitSend /\ [][SendPacket]_vars

-----------------------------------------------------------------------------
(* _decode_state on every pair of fan_state and fan_flags bytes *)

InitResolve ==
    /\ pc = "_decode_state"
    /\ call = [method |-> "get_state", arg |-> 0]
    /\ args = get_state_args
    /\ sent = <<BuildPacket(GET_STATE, 0, 0)>>
    /\ resp = <<0, 0>>
    /\ data \in { PayloadOf(58, [temperature |-> 245, tvoc |-> 15, fan_state |-> s,
                                 fan_speed |-> 50, fan_flags |-> g]) :
                     s \in Byte, g \in Byte }
    /\ result = None
    /\ raised = "none"
    /\ steps = <<"send_packet", "check_error", "decrypt">>

SpecResolve == InitResolve /\ [][DecodeState]_vars

-----------------------------------------------------------------------------
(* Properties *)

\* the sum of the bytes of p from Python index k on, the indexes in skip read as zero
RECURSIVE SumSkipping(_, _, _)
SumSkipping(p, k, skip) ==
    IF k >= Len(p) THEN 0
    ELSE (IF k \in skip THEN 0 ELSE p[k + 1]) + SumSkipping(p, k + 1, skip)

\* the 16-bit little-endian number at Python indexes k, k + 1
LittleEndian16(p, k) == p[k + 1] + 256 * p[k + 2]

IsBytes(p) == \A i \in 1..Len(p) : p[i] \in Byte

\* the wire layout of a command: length, magic, checksum c, operation o,
\* the constant 0x0C, action a, action argument g
WirePacket(c, o, a, g) ==
    <<24, 0, 165, 165, 90, 90, c % 256, c \div 256, o, 0, 12, 0, 0, 0, a, g,
      0, 0, 0, 0, 0, 0, 0, 0, 0, 0>>

\* C1: every packet handed to the transport is 26 bytes, its bytes 0x06..0x07
\* hold (0xBEAF + the sum of its bytes with the checksum and length bytes read
\* as zero) mod 65536 in little-endian order, and its bytes 0x00..0x01 hold 24.
C1_ChecksumAndLength ==
    \A i \in 1..Len(sent) :
        LET p == sent[i] IN
        /\ Len(p) = 26
        /\ IsBytes(p)
        /\ LittleEndian16(p, 6) = (48815 + SumSkipping(p, 0, {0, 1, 6, 7})) % 65536
        /\ LittleEndian16(p, 0) = 24

C1_Witness ==
    /\ args = <<1, 2, 11>>
    /\ Len(sent) = 1

\* C2: once a payload shorter than 58 bytes has been decoded, the call has
\* ended with ProtocolError and no state was returned.
C2_ShortPayloadProtocolError ==
    (pc \in {"returned", "raised"} /\ Len(steps) = 4 /\ Len(data) < 58)
        => (raised = "ProtocolError" /\ pc = "raised" /\ result = None)

\* C3: the steps of a call run in the order send_packet, check_error, decrypt,
\* _decode_state; when the response carries a non-zero error code the call
\* ends right after check_error with DeviceError, having sent one packet and
\* neither decrypted nor decoded anything.
C3_OrderAndAbort ==
    LET order == <<"send_packet", "check_error", "decrypt", "_decode_state">> IN
    /\ Len(steps) <= 4
    /\ steps = SubSeq(order, 1, Len(steps))
    /\ Len(sent) <= 1
    /\ (Len(steps) >= 2 /\ resp # <<0, 0>>)
          => /\ raised = "DeviceError"
             /\ pc = "raised"
             /\ Len(steps) = 2
             /\ Len(sent) = 1
             /\ data = <<>>
             /\ result = None

C3_Witness ==
    /\ raised = "DeviceError"
    /\ call.method = "set_fan_speed"
    /\ resp = <<249, 255>>

\* the fields _decode_state copies from the payload whatever the fan reports
SensorFieldsFrom(state, d) ==
    /\ state.co2 = LittleEndian16(d, 31)
    /\ state.tvoc = 10 * LittleEndian16(d, 35)
    /\ state.pm10 = LittleEndian16(d, 37)
    /\ state.pm2_5 = LittleEndian16(d, 39)
    /\ state.pm1 = LittleEndian16(d, 41)

MainUnitAbsent(state) ==
    /\ state.temperature = None
    /\ state.humidity = None
    /\ state.fan_mode = None

\* C4 as stated: a payload whose fan_state byte is 0x01 decodes to a state
\* without temperature, humidity and fan_mode, whatever its fan_flags byte,
\* with co2, tvoc (times 10), pm10, pm2_5 and pm1 taken from the raw bytes.
C4_OfflineWhateverFlags ==
    (pc = "returned" /\ data[56] = 1)
        => (MainUnitAbsent(result[1]) /\ SensorFieldsFrom(result[1], data))

\* C4 amended: a payload whose fan_state byte is 0x01 and whose fan_flags byte
\* has bit 0x40 set decodes to a state without temperature, humidity and
\* fan_mode, with co2, tvoc (times 10), pm10, pm2_5 and pm1 taken from the raw
\* bytes; with bit 0x40 clear the state is an ANTI_ALLERGY one with
\* temperature and humidity present.
C4_OfflineWhenFlagSet ==
    (pc = "returned" /\ data[56] = 1)
        => /\ SensorFieldsFrom(result[1], data)
           /\ IF data[58] % 128 >= 64
              THEN MainUnitAbsent(result[1])
              ELSE /\ result[1].fan_mode = <<ANTI_ALLERGY>>
                   /\ result[1].temperature # None
                   /\ result[1].humidity # None

C4_Witness ==
    /\ pc = "returned"
    /\ data[56] = 1
    /\ data[58] = 255
    /\ result[1].co2 = 425
    /\ result[1].tvoc = 2600

\* C5: _decode_fan_mode never fails; with bit 0x40 of fan_flags clear it gives
\* ANTI_ALLERGY for every fan_state, otherwise OFF/AUTO/NIGHT/TURBO/MANUAL for
\* 0x81/0xA5/0x95/0x8D/0x85, None for 0x01 and UNKNOWN for any other byte.
C5_ResolveTotal ==
    pc # "_decode_state" =>
        /\ pc = "returned"
        /\ raised = "none"
        /\ LET fan_state == data[56]
               fan_flags == data[58]
               fan_mode == result[1].fan_mode
           IN  IF fan_flags % 128 < 64
               THEN fan_mode = <<4>>
               ELSE /\ fan_state = 129 => fan_mode = <<0>>
                    /\ fan_state = 165 => fan_mode = <<1>>
                    /\ fan_state = 149 => fan_mode = <<2>>
                    /\ fan_state = 141 => fan_mode = <<3>>
                    /\ fan_state = 133 => fan_mode = <<5>>
                    /\ fan_state = 1 => fan_mode = <<>>
                    /\ fan_state \notin {129, 165, 149, 141, 133, 1}
                          => fan_mode = <<-1>>

C5_Witness ==
    /\ pc = "returned"
    /\ data[56] = 1
    /\ data[58] = 128
    /\ result[1].fan_mode = <<ANTI_ALLERGY>>

\* C6: in every decoded state temperature, humidity and fan_mode are all
\* present or all absent.
C6_AbsentTogether ==
    pc = "returned" =>
        /\ (result[1].temperature = None) <=> (result[1].humidity = None)
        /\ (result[1].humidity = None) <=> (result[1].fan_mode = None)

C6_Witness ==
    /\ pc = "returned"
    /\ result[1].fan_mode = None
    /\ result[1].humidity = None

\* C7: set_fan_mode(MANUAL) hands exactly one packet to the transport, the
\* packet set_fan_speed(50) hands over: operation 1, action 1, action_arg 50.
C7_ManualIsSpeed50 ==
    LET speed50 == WirePacket(49389, 1, 1, 50) IN
    /\ (call.method = "set_fan_mode" /\ call.arg = 5 /\ pc # "_send")
          => sent = <<speed50>>
    /\ (call.method = "set_fan_speed" /\ call.arg = 50 /\ pc # "_send")
          => sent = <<speed50>>

C7_Witness ==
    /\ call.method = "set_fan_mode"
    /\ call.arg = 5
    /\ pc = "returned"
    /\ Len(sent) = 1

\* C8: set_fan_mode of a mode that is neither MANUAL nor a key of the
\* mode-to-argument table hands exactly one packet to the transport, the one
\* get_state hands over (operation 2, action 0, action_arg 0), and no
\* SET_STATE packet.
C8_UnmappedModeIsGetState ==
    LET query == WirePacket(49339, 2, 0, 0) IN
    /\ (call.method = "set_fan_mode" /\ call.arg \notin {0, 1, 2, 3, 4, 5}
           /\ pc # "_send")
          => (sent = <<query>> /\ \A i \in 1..Len(sent) : sent[i][9] # 1)
    /\ (call.method = "get_state" /\ pc # "_send")
          => sent = <<query>>

C8_Witness ==
    /\ call.method = "set_fan_mode"
    /\ call.arg = UNKNOWN
    /\ pc = "returned"
    /\ Len(sent) = 1

\* C9: the fan_speed of every decoded state lies in 0..121.
C9_FanSpeedRange ==
    pc = "returned" => result[1].fan_speed \in 0..121

\* C10: the 16-bit reduction of the checksum never wraps: with o, a, g the low
\* 8 bits of operation, action and action_arg, the stored checksum is
\* 0xC0B9 + o + a + g, at most 0xC3B6, and the packet depends on the
\* arguments only through o, a and g.
C10_ChecksumNeverWraps ==
    sent # <<>> =>
        LET o == args[1] % 256
            a == args[2] % 256
            g == args[3] % 256
        IN  /\ 49337 + o + a + g <= 50102
            /\ LittleEndian16(sent[1], 6) = 49337 + o + a + g
            /\ sent[1] = WirePacket(49337 + o + a + g, o, a, g)

C10_Witness ==
    /\ args = <<257, 258, 306>>
    /\ sent = <<WirePacket(49337 + 1 + 2 + 50, 1, 2, 50)>>

====
